---- MODULE Spec2Model ----
(***************************************************************************)
(* A model of wc-parser: the segmenter (make_array_of_messages), the field *)
(* extractor and normalizer (parse_messages) and the date-order            *)
(* disambiguator (days_before_months and its three heuristics).            *)
(*                                                                         *)
(* Text is a sequence of characters; a character is a one-character string *)
(* and the code points that have no printable form carry their name.       *)
(***************************************************************************)
EXTENDS Integers, Sequences, FiniteSets, TLC

\* ------------------------------------------------------------------------
\* Characters and the character classes of the regex crate (Unicode mode).
\* ------------------------------------------------------------------------
LRM == "LRM"
RLM == "RLM"
NNBSP == "NNBSP"
LF == "LF"
ARABIC3 == "ARABIC3"

AsciiDigits == {"0", "1", "2", "3", "4", "5", "6", "7", "8", "9"}

Letters == {"a", "b", "c", "d", "e", "f", "g", "h", "i", "j", "k", "l", "m",
            "n", "o", "p", "q", "r", "s", "t", "u", "v", "w", "x", "y", "z",
            "A", "B", "C", "D", "E", "F", "G", "H", "I", "J", "K", "L", "M",
            "N", "O", "P", "Q", "R", "S", "T", "U", "V", "W", "X", "Y", "Z"}

\* \d is Unicode-aware: it also admits decimal digits that are not ASCII.
IsDigit(c) == c \in AsciiDigits \cup {ARABIC3}

\* \s: Unicode White_Space (U+202F included; U+200E and U+200F are not).
IsSpace(c) == c \in {" ", LF, "TAB", "CR", NNBSP}

IsWord(c) == IsDigit(c) \/ c \in Letters \/ c = "_"

InClass(cls, c) ==
    CASE cls = "d" -> IsDigit(c)
      [] cls = "D" -> ~IsDigit(c)
      [] cls = "s" -> IsSpace(c)
      [] cls = "w" -> IsWord(c)
      [] cls = "dot" -> c # LF
      [] cls = "any" -> TRUE

\* ------------------------------------------------------------------------
\* Regular expressions as syntax trees, matched with the crate's
\* leftmost-first (backtracking priority) semantics.
\* ------------------------------------------------------------------------
Lit(c) == <<"lit", c>>
Cls(n) == <<"cls", n>>
OneOf(S) == <<"set", S>>
Bol == <<"bol">>
Cat(rs) == <<"cat", rs>>
Alt(rs) == <<"alt", rs>>
Rep(r, lo, hi, greedy) == <<"rep", r, lo, hi, greedy>>
Grp(k, r) == <<"grp", k, r>>
Inf == 0 - 1
Opt(r) == Rep(r, 0, 1, TRUE)
Star(r) == Rep(r, 0, Inf, TRUE)

NoCap == <<0, 0>>

RECURSIVE Run(_, _, _, _)
RECURSIVE RunCat(_, _, _, _, _)
RECURSIVE CatFrom(_, _, _, _, _)
RECURSIVE RunAlt(_, _, _, _, _)
RECURSIVE RunRep(_, _, _, _, _, _, _)
RECURSIVE RepFrom(_, _, _, _, _, _, _, _)

MatchesChar(r, c) ==
    CASE r[1] = "lit" -> c = r[2]
      [] r[1] = "cls" -> InClass(r[2], c)
      [] r[1] = "set" -> c \in r[2]

\* A capture group closes: every outcome records the group's span.
SetGroup(outs, g, i) ==
    [k \in 1..Len(outs) |-> <<outs[k][1], [outs[k][2] EXCEPT ![g] = <<i, outs[k][1]>>]>>]

\* Every way `re` matches s from position i, in priority order, as
\* <<end position, captures>>.
Run(re, s, i, caps) ==
    CASE re[1] \in {"lit", "cls", "set"} ->
           IF i <= Len(s) /\ MatchesChar(re, s[i]) THEN << <<i + 1, caps>> >> ELSE << >>
      [] re[1] = "bol" ->
           IF i = 1 THEN << <<i, caps>> >> ELSE << >>
      [] re[1] = "cat" -> RunCat(re[2], 1, s, i, caps)
      [] re[1] = "alt" -> RunAlt(re[2], 1, s, i, caps)
      [] re[1] = "rep" -> RunRep(re[2], re[3], re[4], re[5], s, i, caps)
      [] re[1] = "grp" -> SetGroup(Run(re[3], s, i, caps) \o << >>, re[2], i) \o << >>

RunCat(rs, n, s, i, caps) ==
    IF n > Len(rs) THEN << <<i, caps>> >>
    ELSE CatFrom(Run(rs[n], s, i, caps), 1, rs, n, s)

CatFrom(outs, k, rs, n, s) ==
    IF k > Len(outs) THEN << >>
    ELSE RunCat(rs, n + 1, s, outs[k][1], outs[k][2]) \o CatFrom(outs, k + 1, rs, n, s)

RunAlt(rs, n, s, i, caps) ==
    IF n > Len(rs) THEN << >>
    ELSE Run(rs[n], s, i, caps) \o RunAlt(rs, n + 1, s, i, caps)

\* The length of the longest run of characters matching r from i, at most top.
MaxRun(r, top, s, i) ==
    Cardinality({k \in 1..top : \A j \in 0..(k - 1) : MatchesChar(r, s[i + j])})

\* The outcomes of a repetition of a one-character pattern whose longest run
\* is maxk: longest first when greedy, shortest first when lazy.
RunOutcomes(maxk, lo, greedy, i, caps) ==
    IF maxk < lo THEN << >>
    ELSE [n \in 1..(maxk - lo + 1) |->
            <<i + (IF greedy THEN maxk - n + 1 ELSE lo + n - 1), caps>>] \o << >>

RunRepChar(r, lo, hi, greedy, s, i, caps) ==
    RunOutcomes(MaxRun(r, IF hi = Inf \/ hi > Len(s) - i + 1 THEN Len(s) - i + 1 ELSE hi, s, i),
                lo, greedy, i, caps)

RunRep(r, lo, hi, greedy, s, i, caps) ==
    IF r[1] \in {"lit", "cls", "set"} THEN RunRepChar(r, lo, hi, greedy, s, i, caps)
    ELSE IF greedy
         THEN (IF hi = 0 THEN << >> ELSE RepFrom(Run(r, s, i, caps), 1, r, lo, hi, greedy, s, i))
              \o (IF lo = 0 THEN << <<i, caps>> >> ELSE << >>)
         ELSE (IF lo = 0 THEN << <<i, caps>> >> ELSE << >>)
              \o (IF hi = 0 THEN << >> ELSE RepFrom(Run(r, s, i, caps), 1, r, lo, hi, greedy, s, i))

RepFrom(outs, k, r, lo, hi, greedy, s, i) ==
    IF k > Len(outs) THEN << >>
    ELSE (IF outs[k][1] > i
          THEN RunRep(r, IF lo = 0 THEN 0 ELSE lo - 1, IF hi = Inf THEN Inf ELSE hi - 1,
                      greedy, s, outs[k][1], outs[k][2])
          ELSE << >>)
         \o RepFrom(outs, k + 1, r, lo, hi, greedy, s, i)

RECURSIVE Search(_, _, _, _)
RECURSIVE FirstOutcome(_, _, _, _, _)
\* Regex::captures: the first match at the leftmost start position, or << >>.
Search(re, n, s, i) ==
    IF i > Len(s) + 1 THEN << >>
    ELSE FirstOutcome(Run(re, s, i, [g \in 1..n |-> NoCap]), re, n, s, i)

FirstOutcome(outs, re, n, s, i) ==
    IF outs # << >> THEN << outs[1][2] >> ELSE Search(re, n, s, i + 1)

Captures(re, n, s) == Search(re, n, s, 1)

IsMatch(re, n, s) == Captures(re, n, s) # << >>

\* caps.get(g).map(|m| m.as_str()): << >> is None, <<text>> is Some(text).
Group(caps, g, s) ==
    IF caps[g] = NoCap THEN << >> ELSE << SubSeq(s, caps[g][1], caps[g][2] - 1) >>

\* caps.get(g).map_or("", |m| m.as_str())
GroupOrEmpty(caps, g, s) ==
    IF caps[g] = NoCap THEN << >> ELSE SubSeq(s, caps[g][1], caps[g][2] - 1)

\* ------------------------------------------------------------------------
\* The patterns of parser.rs.
\* ------------------------------------------------------------------------
DirMarks == Star(Alt(<<Lit(LRM), Lit(RLM)>>))

\* (\d{1,4}[-/.]\s?\d{1,4}[-/.]\s?\d{1,4})
DateToken ==
    Grp(1, Cat(<<Rep(Cls("d"), 1, 4, TRUE), OneOf({"-", "/", "."}), Opt(Cls("s")),
                 Rep(Cls("d"), 1, 4, TRUE), OneOf({"-", "/", "."}), Opt(Cls("s")),
                 Rep(Cls("d"), 1, 4, TRUE)>>))

\* (\d{1,2}[.:]\d{1,2}(?:[.:]\d{1,2})?)
TimeToken ==
    Grp(2, Cat(<<Rep(Cls("d"), 1, 2, TRUE), OneOf({".", ":"}), Rep(Cls("d"), 1, 2, TRUE),
                 Opt(Cat(<<OneOf({".", ":"}), Rep(Cls("d"), 1, 2, TRUE)>>))>>))

\* (?:(?:\s|\u{202F})([AaPp](?:\.\s?|\s?)[Mm]\.?))?
AmPmToken ==
    Opt(Cat(<<Alt(<<Cls("s"), Lit(NNBSP)>>),
              Grp(3, Cat(<<OneOf({"A", "a", "P", "p"}),
                           Alt(<<Cat(<<Lit("."), Opt(Cls("s"))>>), Opt(Cls("s"))>>),
                           OneOf({"M", "m"}), Opt(Lit("."))>>))>>))

SHARED_REGEX ==
    <<Bol, DirMarks, Opt(Lit("[")), DateToken, Opt(OneOf({",", "."})), Cls("s"),
      Rep(Cls("D"), 0, Inf, FALSE), TimeToken, AmPmToken, Opt(Lit("]")),
      Opt(Alt(<<Cat(<<Cls("s"), Lit("-")>>), Lit(":")>>)), Cls("s")>>

\* (?s)(.+?):\s(.*)
AUTHOR_AND_MESSAGE_REGEX ==
    <<Grp(4, Rep(Cls("any"), 1, Inf, FALSE)), Lit(":"), Cls("s"), Grp(5, Star(Cls("any")))>>

\* (?s)(.*)
MESSAGE_REGEX == <<Grp(4, Star(Cls("any")))>>

REGEX_USER == Cat(SHARED_REGEX \o AUTHOR_AND_MESSAGE_REGEX)

REGEX_SYSTEM == Cat(SHARED_REGEX \o MESSAGE_REGEX)

NGroups == 5

\* ^(?:\u{200E}|\u{200F})*(?:<.+:(.+)>|([\w-]+\.\w+)\s[(<].+[)>])
REGEX_ATTACHMENT ==
    Cat(<<Bol, DirMarks,
          Alt(<<Cat(<<Lit("<"), Rep(Cls("dot"), 1, Inf, TRUE), Lit(":"),
                      Grp(1, Rep(Cls("dot"), 1, Inf, TRUE)), Lit(">")>>),
                Cat(<<Grp(2, Cat(<<Rep(Alt(<<Cls("w"), Lit("-")>>), 1, Inf, TRUE), Lit("."),
                                   Rep(Cls("w"), 1, Inf, TRUE)>>)),
                      Cls("s"), OneOf({"(", "<"}), Rep(Cls("dot"), 1, Inf, TRUE),
                      OneOf({")", ">"})>>)>>)>>)

NAttachmentGroups == 2

\* ------------------------------------------------------------------------
\* Strings: the std operations the code uses.
\* ------------------------------------------------------------------------
None == << >>

Some(v) == <<v>>

\* str::len counts UTF-8 bytes, not characters.
Utf8Width(c) ==
    CASE c \in {LRM, RLM, NNBSP} -> 3
      [] c = ARABIC3 -> 2
      [] OTHER -> 1

RECURSIVE ByteLen(_)
ByteLen(s) == IF s = << >> THEN 0 ELSE Utf8Width(Head(s)) + ByteLen(Tail(s))

\* str::trim
TrimTo(s, keep) ==
    IF keep = {} THEN << >>
    ELSE SubSeq(s, CHOOSE a \in keep : \A k \in keep : a <= k,
                   CHOOSE b \in keep : \A k \in keep : b >= k)

Trim(s) == TrimTo(s, {k \in 1..Len(s) : ~IsSpace(s[k])})

RECURSIVE SplitOn(_, _)
RECURSIVE SplitAt(_, _, _)
\* str::split on any character of seps (Regex::split for a one-character class).
SplitOn(s, seps) == SplitAt(s, seps, {k \in 1..Len(s) : s[k] \in seps})

SplitAt(s, seps, at) ==
    IF at = {} THEN <<s>>
    ELSE <<SubSeq(s, 1, (CHOOSE a \in at : \A k \in at : a <= k) - 1)>>
         \o SplitOn(SubSeq(s, (CHOOSE a \in at : \A k \in at : a <= k) + 1, Len(s)), seps)

RECURSIVE Join(_, _)
Join(ls, sep) ==
    IF Len(ls) = 0 THEN << >>
    ELSE IF Len(ls) = 1 THEN ls[1]
    ELSE ls[1] \o <<sep>> \o Join(Tail(ls), sep)

\* str::replace(ch, "")
Remove(s, ch) == SelectSeq(s, LAMBDA c : c # ch)

DigitChars == <<"0", "1", "2", "3", "4", "5", "6", "7", "8", "9">>

DigitVal(c) == (CHOOSE k \in 1..10 : DigitChars[k] = c) - 1

RECURSIVE DecimalValue(_)
DecimalValue(s) ==
    IF s = << >> THEN 0 ELSE 10 * DecimalValue(SubSeq(s, 1, Len(s) - 1)) + DigitVal(s[Len(s)])

\* str::parse::<i32>() / ::<u32>() on a string of digits: Err (None here) on
\* the empty string and on any character that is not an ASCII digit.
ParseInt(s) ==
    IF s = << >> \/ \E k \in 1..Len(s) : s[k] \notin AsciiDigits THEN None
    ELSE Some(DecimalValue(s))

RECURSIVE Decimal(_)
Decimal(n) == IF n < 10 THEN <<DigitChars[n + 1]>> ELSE Decimal(n \div 10) \o <<DigitChars[(n % 10) + 1]>>

\* format!("{:0>w}", s): pad on the left with '0' to w characters.
PadLeft0(s, w) == [k \in 1..(IF Len(s) >= w THEN 0 ELSE w - Len(s)) |-> "0"] \o s

\* format!("{:02}", n) for n >= 0
Format02(n) == PadLeft0(Decimal(n), 2)

LowerCase == <<"a", "b", "c", "d", "e", "f", "g", "h", "i", "j", "k", "l", "m",
               "n", "o", "p", "q", "r", "s", "t", "u", "v", "w", "x", "y", "z">>

UpperCase == <<"A", "B", "C", "D", "E", "F", "G", "H", "I", "J", "K", "L", "M",
               "N", "O", "P", "Q", "R", "S", "T", "U", "V", "W", "X", "Y", "Z">>

ToUpper(c) ==
    IF \E k \in 1..26 : LowerCase[k] = c
    THEN UpperCase[CHOOSE k \in 1..26 : LowerCase[k] = c]
    ELSE c

\* ------------------------------------------------------------------------
\* datetime.rs
\* ------------------------------------------------------------------------
index_above_value(index, value, array) == array[index + 1] > value

is_negative(number) == number < 0

RECURSIVE AnyFrom(_, _)
\* Iterator::any over the outcomes of the predicate: scans from the front and
\* stops at the first hit.
AnyFrom(hits, k) ==
    IF k > Len(hits) THEN FALSE
    ELSE IF hits[k] THEN TRUE
    ELSE AnyFrom(hits, k + 1)

\* slice::windows(2)
Windows2(seq) == [k \in 1..(IF Len(seq) < 2 THEN 0 ELSE Len(seq) - 1) |-> <<seq[k], seq[k + 1]>>]

\* |d| index_above_value(index, 12)(d) on every triple.
above_12(numeric_dates, index) ==
    [k \in 1..Len(numeric_dates) |-> index_above_value(index, 12, numeric_dates[k])]

\* check_above_12 with the second component looked at first.
check_above_12_second_first(numeric_dates) ==
    IF AnyFrom(above_12(numeric_dates, 1), 1) THEN Some(FALSE)
    ELSE IF AnyFrom(above_12(numeric_dates, 0), 1) THEN Some(TRUE)
    ELSE None

check_above_12(numeric_dates) ==
    IF AnyFrom(above_12(numeric_dates, 0), 1) THEN Some(TRUE)
    ELSE IF AnyFrom(above_12(numeric_dates, 1), 1) THEN Some(FALSE)
    ELSE None

\* The keys of the HashMap of group_array_by_value_at_index.
GroupKeys(array, index) == {array[k][index + 1] : k \in 1..Len(array)}

RECURSIVE Orders(_)
\* Every enumeration order of a set of keys: HashMap::into_values promises none.
Orders(S) ==
    IF S = {} THEN {<< >>}
    ELSE UNION {{<<x>> \o o : o \in Orders(S \ {x})} : x \in S}

\* The grouping with every new item put at the front of its group.
group_array_by_value_at_index_reversed(array, index, order) ==
    [g \in 1..Len(order) |->
        LET items == SelectSeq(array, LAMBDA item : item[index + 1] = order[g])
        IN  [k \in 1..Len(items) |-> items[Len(items) + 1 - k]]]

\* group_array_by_value_at_index, its groups enumerated in the given key order;
\* each group holds its items in input order.
group_array_by_value_at_index(array, index, order) ==
    [g \in 1..Len(order) |-> SelectSeq(array, LAMBDA item : item[index + 1] = order[g])]

\* |w| is_negative(w[1][index] - w[0][index]) on every window.
decreases(ws, index) ==
    [k \in 1..Len(ws) |-> is_negative(ws[k][2][index + 1] - ws[k][1][index + 1])]

\* The closure of check_decreasing, for one year group.
check_decreasing_group(dates) ==
    IF AnyFrom(decreases(Windows2(dates), 0), 1) THEN Some(TRUE)
    ELSE IF AnyFrom(decreases(Windows2(dates), 1), 1) THEN Some(FALSE)
    ELSE None

\* The aggregation over the groups' results.
any_group(results) ==
    IF AnyFrom([k \in 1..Len(results) |-> results[k] = Some(TRUE)], 1) THEN Some(TRUE)
    ELSE IF AnyFrom([k \in 1..Len(results) |-> results[k] = Some(FALSE)], 1) THEN Some(FALSE)
    ELSE None

group_results(dates_by_year) ==
    [g \in 1..Len(dates_by_year) |-> check_decreasing_group(dates_by_year[g])] \o << >>

\* check_decreasing without the grouping by year.
check_decreasing_ungrouped(numeric_dates, order) == check_decreasing_group(numeric_dates)

check_decreasing(numeric_dates, order) ==
    any_group(group_results(group_array_by_value_at_index(numeric_dates, 2, order)))

Abs(n) == IF n < 0 THEN -n ELSE n

\* diffs without abs().
window_diffs_signed(w) ==
    [k \in 1..Len(w) |-> [j \in 1..3 |-> w[k][2][j] - w[k][1][j]]]

\* diffs: for each window the absolute differences, component by component.
window_diffs(w) ==
    [k \in 1..Len(w) |-> [j \in 1..3 |-> Abs(w[k][2][j] - w[k][1][j])]]

RECURSIVE FoldDiffs(_, _, _)
\* The fold over diffs, from element k on.
FoldDiffs(diffs, k, acc) ==
    IF k > Len(diffs) THEN acc
    ELSE FoldDiffs(diffs, k + 1, <<acc[1] + diffs[k][1], acc[2] + diffs[k][2]>>)

compare_sums(sums) ==
    IF sums[1] > sums[2] THEN Some(TRUE)
    ELSE IF sums[1] < sums[2] THEN Some(FALSE)
    ELSE None

change_frequency_analysis(numeric_dates) ==
    compare_sums(FoldDiffs(window_diffs(Windows2(numeric_dates)), 1, <<0, 0>>))

\* Option::or_else
or_else(a, b) == IF a # None THEN a ELSE b

\* days_before_months with the monotonicity check ahead of the range check.
days_before_months_decreasing_first(numeric_dates, order) ==
    or_else(check_decreasing(numeric_dates, order),
            or_else(check_above_12(numeric_dates),
                    change_frequency_analysis(numeric_dates)))

\* days_before_months with the group order the hash map happened to give.
days_before_months(numeric_dates, order) ==
    or_else(check_above_12(numeric_dates),
            or_else(check_decreasing(numeric_dates, order),
                    change_frequency_analysis(numeric_dates)))

\* normalize_date with the century put in front of every year.
normalize_date_century_always(year, month, day) ==
    <<<<"2", "0">> \o PadLeft0(year, 2), PadLeft0(month, 2), PadLeft0(day, 2)>>

normalize_date(year, month, day) ==
    <<IF ByteLen(year) <= 2 THEN <<"2", "0">> \o PadLeft0(year, 2) ELSE year,
      PadLeft0(month, 2), PadLeft0(day, 2)>>

Max(m, n) == IF m > n THEN m ELSE n

\* The three branches of order_date_components on the trimmed parts.
longest_last(a, b, c, max_len) ==
    IF ByteLen(c) = max_len THEN <<a, b, c>>
    ELSE IF ByteLen(b) = max_len THEN <<a, c, b>>
    ELSE <<b, c, a>>

order_parts(a, b, c) == longest_last(a, b, c, Max(Max(ByteLen(a), ByteLen(b)), ByteLen(c)))

trimmed_parts(parts) == order_parts(Trim(parts[1]), Trim(parts[2]), Trim(parts[3]))

order_date_components(date) == trimmed_parts(SplitOn(date, {"-", "/", "."}))

\* The hours without `if hours == 12 { hours = 0 }`.
convert_hours_12_kept(hours, ampm) == hours + (IF ampm = <<"P", "M">> THEN 12 ELSE 0)

\* hours after `if hours == 12 { hours = 0 }` and `if ampm == "PM" { hours += 12 }`
convert_hours(hours, ampm) ==
    (IF hours = 12 THEN 0 ELSE hours) + (IF ampm = <<"P", "M">> THEN 12 ELSE 0)

convert_parts(parts, parsed_hours, ampm) ==
    IF parsed_hours = None THEN None
    ELSE Some(IF Len(parts) > 2
              THEN Format02(convert_hours(parsed_hours[1], ampm)) \o <<":">> \o parts[2]
                     \o <<":">> \o parts[3]
              ELSE Format02(convert_hours(parsed_hours[1], ampm)) \o <<":">> \o parts[2])

convert_split(parts, ampm) == convert_parts(parts, ParseInt(parts[1]), ampm)

\* convert_time_12_to_24: None when parts[0].parse::<i32>().unwrap() panics.
convert_time_12_to_24(time, ampm) == convert_split(SplitOn(time, {":", "."}), ampm)

normalize_split(parts) ==
    PadLeft0(parts[1], 2) \o <<":">> \o parts[2] \o <<":">>
      \o (IF Len(parts) > 2 THEN parts[3] ELSE <<"0", "0">>)

normalize_time(time) == normalize_split(SplitOn(time, {":", "."}))

IsAlphabetic(c) == c \in Letters

uppercase(s) == [k \in 1..Len(s) |-> ToUpper(s[k])] \o << >>

normalize_ampm(ampm) == uppercase(SelectSeq(ampm, IsAlphabetic))

\* ------------------------------------------------------------------------
\* chrono: the dates and times NaiveDate::from_ymd_opt and
\* NaiveTime::from_hms_opt accept.
\* ------------------------------------------------------------------------
IsLeap(y) == (y % 4 = 0 /\ y % 100 # 0) \/ y % 400 = 0

DaysInMonth(y, m) ==
    IF m = 2 THEN (IF IsLeap(y) THEN 29 ELSE 28)
    ELSE IF m \in {4, 6, 9, 11} THEN 30 ELSE 31

from_ymd_opt(y, m, d) ==
    IF m \in 1..12 /\ d >= 1 /\ d <= DaysInMonth(y, m) THEN Some(<<y, m, d>>) ELSE None

from_hms_opt(h, m, s) ==
    IF h < 24 /\ m < 60 /\ s < 60 THEN Some(<<h, m, s>>) ELSE None

\* ------------------------------------------------------------------------
\* parser.rs: the closures of parse_messages.
\* ------------------------------------------------------------------------
\* The tuple with the message as captured, before the cleanup.
fields_of_uncleaned(caps, system, msg) ==
    [date |-> GroupOrEmpty(caps, 1, msg),
     time |-> GroupOrEmpty(caps, 2, msg),
     ampm |-> Group(caps, 3, msg),
     author |-> IF system THEN None ELSE Group(caps, 4, msg),
     message |-> GroupOrEmpty(caps, IF system THEN 4 ELSE 5, msg)]

\* The tuple (date, time, ampm, author, message) from the captures.
fields_of(caps, system, msg) ==
    [date |-> GroupOrEmpty(caps, 1, msg),
     time |-> GroupOrEmpty(caps, 2, msg),
     ampm |-> Group(caps, 3, msg),
     author |-> IF system THEN None ELSE Group(caps, 4, msg),
     message |-> Trim(Remove(Remove(GroupOrEmpty(caps, IF system THEN 4 ELSE 5, msg), LRM), RLM))]

unwrap_captures(found, system, msg) ==
    IF found = << >> THEN None ELSE Some(fields_of(found[1], system, msg))

\* The extraction closure of the sequential path (debug): the same
\* statements between the prints.
extract_fields_debug(obj) ==
    unwrap_captures(Captures(IF obj.system THEN REGEX_SYSTEM ELSE REGEX_USER, NGroups, obj.msg),
                    obj.system, obj.msg)

\* The extraction closure with the user pattern tried on every RawMessage.
extract_fields_user_first(obj) ==
    IF IsMatch(REGEX_USER, NGroups, obj.msg)
    THEN unwrap_captures(Captures(REGEX_USER, NGroups, obj.msg), FALSE, obj.msg)
    ELSE unwrap_captures(Captures(REGEX_SYSTEM, NGroups, obj.msg), TRUE, obj.msg)

\* The extraction closure of the parallel path: None when
\* captures().unwrap() panics, else the tuple.
extract_fields(obj) ==
    unwrap_captures(Captures(IF obj.system THEN REGEX_SYSTEM ELSE REGEX_USER, NGroups, obj.msg),
                    obj.system, obj.msg)

unwrap_triple(d, m, y) ==
    IF d = None \/ m = None \/ y = None THEN None ELSE Some(<<d[1], m[1], y[1]>>)

parse_triple(o) == unwrap_triple(ParseInt(o[1]), ParseInt(o[2]), ParseInt(o[3]))

\* The triple handed to the disambiguator for one date: None when one of
\* the three parse().unwrap() panics.
numeric_date(date) == parse_triple(order_date_components(date))

\* The order application with an unresolved decision read as month-first.
day_month_year_unless_true(o, days_first) ==
    IF days_first # Some(TRUE) THEN <<o[2], o[1], o[3]>> ELSE <<o[1], o[2], o[3]>>

\* `if days_first == Some(false) { (m, d, y) } else { (d, m, y) }`
day_month_year(o, days_first) ==
    IF days_first = Some(FALSE) THEN <<o[2], o[1], o[3]>> ELSE <<o[1], o[2], o[3]>>

\* The order application with the range check run on each message's own date.
apply_order_per_message(date, days_first) ==
    day_month_year(order_date_components(date),
                   or_else(check_above_12(<<numeric_date(date)[1]>>), days_first))

\* (day, month, year) of a date under the batch's decision.
apply_order(date, days_first) == day_month_year(order_date_components(date), days_first)

attachment_of(found, message) ==
    IF found = << >> THEN None
    ELSE Some([file_name |->
                 IF found[1][1] # NoCap THEN Trim(GroupOrEmpty(found[1], 1, message))
                 ELSE IF found[1][2] # NoCap THEN Trim(GroupOrEmpty(found[1], 2, message))
                 ELSE << >>])

parse_message_attachment(message) ==
    attachment_of(Captures(REGEX_ATTACHMENT, NAttachmentGroups, message), message)

unwrap_or(r, default) == IF r = None THEN default ELSE r[1]

\* split(':') then next().unwrap_or("0").parse().unwrap_or(0)
next_or_0(time_split, k) ==
    unwrap_or(ParseInt(IF Len(time_split) >= k THEN time_split[k] ELSE <<"0">>), 0)

\* from_ymd_opt(..).unwrap() and from_hms_opt(..).unwrap(): None on a panic.
date_and_time(date, time) ==
    IF date = None \/ time = None THEN None ELSE Some(date[1] \o time[1])

assemble(ymd, time_split) ==
    date_and_time(from_ymd_opt(unwrap_or(ParseInt(ymd[1]), 1970), unwrap_or(ParseInt(ymd[2]), 1),
                               unwrap_or(ParseInt(ymd[3]), 1)),
                  from_hms_opt(next_or_0(time_split, 1), next_or_0(time_split, 2),
                               next_or_0(time_split, 3)))

\* The time handed to normalize_time: None when convert_time_12_to_24 panics.
time_to_normalize(time, ampm) ==
    IF ampm # None THEN convert_time_12_to_24(time, normalize_ampm(ampm[1])) ELSE Some(time)

assemble_time(ymd, converted) ==
    IF converted = None THEN None
    ELSE assemble(ymd, SplitOn(normalize_time(converted[1]), {":"}))

normalized_ymd(dmy) == normalize_date(dmy[3], dmy[2], dmy[1])

\* The timestamp of the normalization closure: None when an unwrap() panics.
final_date(t, days_first) ==
    assemble_time(normalized_ymd(apply_order(t.date, days_first)),
                  time_to_normalize(t.time, t.ampm))

\* The Message with the attachment extractor run whatever the option says.
build_message_always_attachment(date, t, parse_attachments) ==
    IF date = None THEN None
    ELSE Some([date |-> date[1],
               author |-> t.author,
               message |-> t.message,
               attachment |-> parse_message_attachment(t.message)])

build_message(date, t, parse_attachments) ==
    IF date = None THEN None
    ELSE Some([date |-> date[1],
               author |-> t.author,
               message |-> t.message,
               attachment |-> IF parse_attachments THEN parse_message_attachment(t.message)
                              ELSE None])

\* The normalization closure of the sequential path with the decided order
\* left out.
final_object_debug_unordered(t, days_first, parse_attachments) ==
    build_message(final_date(t, None), t, parse_attachments)

\* The normalization closure of the sequential path (debug): the same
\* statements between the prints.
final_object_debug(t, days_first, parse_attachments) ==
    build_message(final_date(t, days_first), t, parse_attachments)

\* The normalization closure of the parallel path: None when it panics.
final_object(t, days_first, parse_attachments) ==
    build_message(final_date(t, days_first), t, parse_attachments)

\* ------------------------------------------------------------------------
\* Inputs.
\* ------------------------------------------------------------------------
MaxLines == 3

MaxDates == 3

\* The lines the input text is made of: user and system message starts
\* (an ambiguous date, a first token above 12 in another year, a second token
\* above 12, a system notice) and lines without a timestamp.
LinePool ==
    << <<"3", "/", "6", "/", "1", "8", " ", "1", ":", "5", " ", "a", ":", " ", "m">>,
       <<"1", "3", "/", "1", "/", "2", "1", " ", "1", ":", "5", " ", "a", ":", " ", "m">>,
       <<"1", "/", "1", "3", "/", "1", "8", " ", "1", ":", "5", " ", "a", ":", " ", "m">>,
       <<"2", "/", "7", "/", "1", "8", " ", "1", ":", "5", " ", "-", " ", "s">>,
       <<"t", "w", "o">>,
       << >> >>

RECURSIVE LineSeqs(_)
LineSeqs(n) ==
    IF n = 0 THEN {<< >>}
    ELSE {<<LinePool[k]>> \o ls : k \in 1..Len(LinePool), ls \in LineSeqs(n - 1)}

Texts == {Join(ls, LF) : ls \in UNION {LineSeqs(n) : n \in 1..MaxLines}}

MaxBodyLines == 2

\* What a user message and a system message begin with.
UserHeader == <<"1", "/", "2", "/", "1", "8", " ", "1", ":", "5", " ", "a", ":", " ">>

SystemHeader == <<"1", "/", "2", "/", "1", "8", " ", "1", ":", "5", " ", "-", " ">>

\* Lines whose bodies the cleanup and the attachment pattern tell apart: an
\* attachment in angle brackets with spaces around the file name, a file
\* name with a note between directional marks and spaces, a system notice
\* that names a file, a body with a mark inside, and two lines without a
\* timestamp (one shaped as "author: text").
BodyLinePool ==
    << UserHeader \o <<"<", "a", ":", " ", "f", ".", "j", " ", ">">>,
       UserHeader \o <<LRM, " ", "f", ".", "j", " ", "(", "x", ")", NNBSP, RLM>>,
       SystemHeader \o <<"f", ".", "j", " ", "<", "x", ">">>,
       UserHeader \o <<"h", RLM, "i">>,
       <<"b", ":", " ", "c">>,
       <<"(", "x", ")", " ">> >>

BodyTexts ==
    {Join(ls, LF) : ls \in UNION {[1..n -> {BodyLinePool[k] : k \in 1..Len(BodyLinePool)}] :
                                     n \in 1..MaxBodyLines}}

Triples == {<<a, b, c>> : a \in {1, 2, 13}, b \in {1, 2, 13}, c \in {17, 18}}

\* The sequences of n triples.
MaxYearDates == 4

\* Number tokens the date pattern admits (\d{1,4}): one to four digits, and
\* two digits that are not ASCII.
NumberTokens ==
    {<<"1">>, <<"1", "2">>, <<"1", "2", "3">>, <<"2", "0", "1", "8">>, <<ARABIC3, ARABIC3>>}

\* [-/.]\s?
DateSeparators == {<<"/">>, <<"-">>, <<".", " ">>}

\* The date tokens: \d{1,4}[-/.]\s?\d{1,4}[-/.]\s?\d{1,4}
DateTokens ==
    {a \o s1 \o b \o s2 \o c : a \in NumberTokens, b \in NumberTokens, c \in NumberTokens,
                               s1 \in DateSeparators, s2 \in DateSeparators}

\* Hour tokens (\d{1,2}): 0 to 13, 1 and 9 also with a leading zero, and a
\* digit that is not ASCII.
HourTokens ==
    {Decimal(h) : h \in 0..13} \union {<<"0", "1">>, <<"0", "9">>, <<ARABIC3>>}

MinuteTokens == {<<"5">>, <<"0", "5">>, <<"5", "9">>}

SecondTokens == {<<"7">>, <<"0", "7">>}

TimeSeparators == {<<":">>, <<".">>}

\* The time tokens: \d{1,2}[.:]\d{1,2}(?:[.:]\d{1,2})?
TimeTokens ==
    {h \o s1 \o m : h \in HourTokens, m \in MinuteTokens, s1 \in TimeSeparators}
    \union {h \o s1 \o m \o s2 \o s : h \in HourTokens, m \in MinuteTokens, s \in SecondTokens,
                                     s1 \in TimeSeparators, s2 \in TimeSeparators}

\* The arguments of one direct call of a string function; the markers are
\* what normalize_ampm returns for those the pattern admits.
Arguments ==
    {<<"date", d>> : d \in DateTokens}
    \union {<<"time", t>> : t \in TimeTokens}
    \union {<<"time12", t, ampm>> : t \in TimeTokens, ampm \in {<<"A", "M">>, <<"P", "M">>}}
    \union {<<"ymd", y, m, d>> : y \in NumberTokens, m \in NumberTokens, d \in NumberTokens}

\* Triples for longer batches that span two years: no token above 12.
YearTriples == {<<a, b, c>> : a \in {1, 2}, b \in {1, 2}, c \in {17, 18}}

\* ------------------------------------------------------------------------
\* State.
\* ------------------------------------------------------------------------
VARIABLES
    text,               \* the argument of parse_string
    opt_days_first,     \* options.days_first
    parse_attachments,  \* options.parse_attachments
    debug,              \* options.debug
    pc,                 \* where parse_string is
    lines,              \* parse_string: s.split('\n')
    line_idx,           \* the segmenter's loop position
    acc,                \* the segmenter's accumulator; then `messages`
    parsed,             \* parse_messages: the tuples, None where not yet extracted
    days_first,         \* parse_messages: the local days_first
    numeric_dates,      \* the triples given to the disambiguator
    dmy,                \* the (day, month, year) each normalization closure computed
    final_messages,     \* the Messages, None where not yet built
    result,             \* what parse_string returned, None before
    call,               \* a direct call of a datetime.rs function: its name
    ret,                \* and what it returned
    arg                 \* the string arguments of a direct call, tagged with their kind

vars == <<text, opt_days_first, parse_attachments, debug, pc, lines, line_idx, acc, parsed,
          days_first, numeric_dates, dmy, final_messages, result, call, ret, arg>>

options == <<opt_days_first, parse_attachments, debug>>

segmenter == <<lines, line_idx, acc>>

parser == <<parsed, days_first, numeric_dates, dmy, final_messages>>

direct == <<call, ret, arg>>

Idle ==
    /\ lines = << >>
    /\ line_idx = 1
    /\ acc = << >>
    /\ parsed = << >>
    /\ days_first = None
    /\ dmy = << >>
    /\ final_messages = << >>
    /\ result = None
    /\ call = "none"
    /\ ret = None

\* parse_string(text, options) is called, parse_attachments at its default.
Init ==
    /\ text \in Texts
    /\ opt_days_first \in {None, Some(TRUE), Some(FALSE)}
    /\ parse_attachments = FALSE
    /\ debug \in BOOLEAN
    /\ pc = "parse_string"
    /\ numeric_dates = << >>
    /\ Idle
    /\ arg = None

\* parse_string(text, options) is called on a text of the body lines, with
\* and without parse_attachments.
InitBodies ==
    /\ text \in BodyTexts
    /\ opt_days_first \in {None, Some(TRUE)}
    /\ parse_attachments \in BOOLEAN
    /\ debug \in BOOLEAN
    /\ pc = "parse_string"
    /\ numeric_dates = << >>
    /\ Idle
    /\ arg = None

\* A function of datetime.rs is about to be called on a batch of triples.
InitDates ==
    /\ text = << >>
    /\ opt_days_first = None
    /\ parse_attachments = FALSE
    /\ debug = FALSE
    /\ pc = "idle"
    /\ \E n \in 0..MaxDates : numeric_dates \in [1..n -> Triples]
    /\ Idle
    /\ arg = None

\* check_decreasing is about to be called on a batch that spans two years.
InitYears ==
    /\ text = << >>
    /\ opt_days_first = None
    /\ parse_attachments = FALSE
    /\ debug = FALSE
    /\ pc = "idle"
    /\ \E n \in 0..MaxYearDates : numeric_dates \in [1..n -> YearTriples]
    /\ Idle
    /\ arg = None

\* A string function of datetime.rs is about to be called.
InitTokens ==
    /\ text = << >>
    /\ opt_days_first = None
    /\ parse_attachments = FALSE
    /\ debug = FALSE
    /\ pc = "idle"
    /\ numeric_dates = << >>
    /\ Idle
    /\ arg \in {Some(a) : a \in Arguments}

\* ------------------------------------------------------------------------
\* lib.rs: parse_string.
\* ------------------------------------------------------------------------
ParseString ==
    /\ pc = "parse_string"
    /\ lines' = SplitOn(text, {LF})
    /\ line_idx' = 1
    /\ acc' = << >>
    /\ pc' = "segment"
    /\ UNCHANGED <<text, options, parser, result, direct>>

\* ------------------------------------------------------------------------
\* parser.rs: make_array_of_messages_with_debug.
\* ------------------------------------------------------------------------
IsUserLine(line) == IsMatch(REGEX_USER, NGroups, line)

IsSystemLine(line) == IsMatch(REGEX_SYSTEM, NGroups, line)

\* The loop body with the newline of a continuation left out.
segment_line_no_newline(messages, line) ==
    IF ~IsUserLine(line)
    THEN IF IsSystemLine(line)
         THEN Append(messages, [system |-> TRUE, msg |-> line])
         ELSE IF messages # << >>
              THEN [messages EXCEPT ![Len(messages)].msg = @ \o line]
              ELSE messages
    ELSE Append(messages, [system |-> FALSE, msg |-> line])

\* The loop body with the system pattern tested first.
segment_line_system_first(messages, line) ==
    IF ~IsSystemLine(line)
    THEN IF IsUserLine(line)
         THEN Append(messages, [system |-> FALSE, msg |-> line])
         ELSE IF messages # << >>
              THEN [messages EXCEPT ![Len(messages)].msg = @ \o <<LF>> \o line]
              ELSE messages
    ELSE Append(messages, [system |-> TRUE, msg |-> line])

\* The loop body with a leading line that matches nothing kept as a message.
segment_line_keep_leading(messages, line) ==
    IF ~IsUserLine(line)
    THEN IF IsSystemLine(line)
         THEN Append(messages, [system |-> TRUE, msg |-> line])
         ELSE IF messages # << >>
              THEN [messages EXCEPT ![Len(messages)].msg = @ \o <<LF>> \o line]
              ELSE Append(messages, [system |-> TRUE, msg |-> line])
    ELSE Append(messages, [system |-> FALSE, msg |-> line])

\* The body of the loop over the lines.
segment_line(messages, line) ==
    IF ~IsUserLine(line)
    THEN IF IsSystemLine(line)
         THEN Append(messages, [system |-> TRUE, msg |-> line])
         ELSE IF messages # << >>
              THEN [messages EXCEPT ![Len(messages)].msg = @ \o <<LF>> \o line]
              ELSE messages
    ELSE Append(messages, [system |-> FALSE, msg |-> line])

\* The loop over the first n lines.
RECURSIVE segment_lines(_, _)
segment_lines(ls, n) ==
    IF n = 0 THEN << >> ELSE segment_line(segment_lines(ls, n - 1), ls[n])

\* make_array_of_messages: the segmenter with debug = false.
make_array_of_messages(ls) == segment_lines(ls, Len(ls))

SegmentLine ==
    /\ pc = "segment"
    /\ line_idx <= Len(lines)
    /\ acc' = segment_line(acc, lines[line_idx])
    /\ line_idx' = line_idx + 1
    /\ UNCHANGED <<text, options, pc, lines, parser, result, direct>>

\* The segmenter returns and parse_messages starts on its result.
SegmentReturn ==
    /\ pc = "segment"
    /\ line_idx > Len(lines)
    /\ parsed' = [k \in 1..Len(acc) |-> None]
    /\ final_messages' = [k \in 1..Len(acc) |-> None]
    /\ dmy' = [k \in 1..Len(acc) |-> None]
    /\ days_first' = opt_days_first
    /\ pc' = "extract"
    /\ UNCHANGED <<text, options, segmenter, numeric_dates, result, direct>>

\* ------------------------------------------------------------------------
\* parser.rs: parse_messages.
\* ------------------------------------------------------------------------
Pending(done) == {k \in 1..Len(done) : done[k] = None}

\* The items a stage may take next: the first pending one under debug
\* (iter), any pending one otherwise (par_iter; collect keeps the positions).
Schedulable(done) ==
    IF debug THEN {k \in Pending(done) : \A j \in Pending(done) : k <= j}
    ELSE Pending(done)

\* The extraction stage with the tuples collected in completion order: a
\* finished tuple goes to the first free position.
Extract_completion_order ==
    /\ pc = "extract"
    /\ \E k \in Schedulable(parsed) :
          \E t \in {IF debug THEN extract_fields_debug(acc[k]) ELSE extract_fields(acc[k])} :
             IF t = None
             THEN pc' = "panic" /\ UNCHANGED parsed
             ELSE \E first \in {j \in Pending(parsed) : \A i \in Pending(parsed) : j <= i} :
                     parsed' = [parsed EXCEPT ![first] = t] /\ UNCHANGED pc
    /\ UNCHANGED <<text, options, segmenter, days_first, numeric_dates, dmy, final_messages,
                   result, direct>>

Extract ==
    /\ pc = "extract"
    /\ \E k \in Schedulable(parsed) :
          \E t \in {IF debug THEN extract_fields_debug(acc[k]) ELSE extract_fields(acc[k])} :
             IF t = None
             THEN pc' = "panic" /\ UNCHANGED parsed
             ELSE parsed' = [parsed EXCEPT ![k] = t] /\ UNCHANGED pc
    /\ UNCHANGED <<text, options, segmenter, days_first, numeric_dates, dmy, final_messages,
                   result, direct>>

\* days_first was supplied: no detection.
SkipDetect ==
    /\ pc = "extract"
    /\ Pending(parsed) = {}
    /\ days_first # None
    /\ pc' = "normalize"
    /\ UNCHANGED <<text, options, segmenter, parser, result, direct>>

\* days_first.is_none(): the triples of the whole batch go to
\* days_before_months, once.
AutoDetect ==
    /\ pc = "extract"
    /\ Pending(parsed) = {}
    /\ days_first = None
    /\ \E triples \in {[k \in 1..Len(parsed) |-> numeric_date(parsed[k][1].date)] \o << >>} :
          IF \E k \in 1..Len(triples) : triples[k] = None
          THEN pc' = "panic" /\ UNCHANGED <<days_first, numeric_dates>>
          ELSE /\ numeric_dates' = [k \in 1..Len(triples) |-> triples[k][1]]
               /\ \E order \in Orders(GroupKeys(numeric_dates', 2)) :
                     days_first' = days_before_months(numeric_dates', order)
               /\ pc' = "normalize"
    /\ UNCHANGED <<text, options, segmenter, parsed, dmy, final_messages, result, direct>>

Normalize ==
    /\ pc = "normalize"
    /\ \E k \in Schedulable(final_messages) :
          \E m \in {IF debug
                     THEN final_object_debug(parsed[k][1], days_first, parse_attachments)
                     ELSE final_object(parsed[k][1], days_first, parse_attachments)} :
             /\ dmy' = [dmy EXCEPT ![k] = Some(apply_order(parsed[k][1].date, days_first))]
             /\ IF m = None
                THEN pc' = "panic" /\ UNCHANGED final_messages
                ELSE final_messages' = [final_messages EXCEPT ![k] = m] /\ UNCHANGED pc
    /\ UNCHANGED <<text, options, segmenter, parsed, days_first, numeric_dates, result, direct>>

Return ==
    /\ pc = "normalize"
    /\ Pending(final_messages) = {}
    /\ result' = Some([k \in 1..Len(final_messages) |-> final_messages[k][1]])
    /\ pc' = "done"
    /\ UNCHANGED <<text, options, segmenter, parser, direct>>

\* ------------------------------------------------------------------------
\* Direct calls of the public functions of datetime.rs.
\* ------------------------------------------------------------------------
CallCheckAbove12 ==
    /\ call = "none"
    /\ pc = "idle"
    /\ call' = "check_above_12"
    /\ ret' = check_above_12(numeric_dates)
    /\ UNCHANGED <<text, options, pc, segmenter, parser, result, arg>>

CallCheckDecreasing ==
    /\ call = "none"
    /\ pc = "idle"
    /\ call' = "check_decreasing"
    /\ \E order \in Orders(GroupKeys(numeric_dates, 2)) :
          ret' = check_decreasing(numeric_dates, order)
    /\ UNCHANGED <<text, options, pc, segmenter, parser, result, arg>>

CallChangeFrequencyAnalysis ==
    /\ call = "none"
    /\ pc = "idle"
    /\ call' = "change_frequency_analysis"
    /\ ret' = change_frequency_analysis(numeric_dates)
    /\ UNCHANGED <<text, options, pc, segmenter, parser, result, arg>>

CallDaysBeforeMonths ==
    /\ call = "none"
    /\ pc = "idle"
    /\ call' = "days_before_months"
    /\ \E order \in Orders(GroupKeys(numeric_dates, 2)) :
          ret' = days_before_months(numeric_dates, order)
    /\ UNCHANGED <<text, options, pc, segmenter, parser, result, arg>>

\* ------------------------------------------------------------------------
\* Specifications.
\* ------------------------------------------------------------------------
Next ==
    \/ ParseString
    \/ SegmentLine
    \/ SegmentReturn
    \/ Extract
    \/ SkipDetect
    \/ AutoDetect
    \/ Normalize
    \/ Return

Spec == Init /\ [][Next]_vars

SpecBodies == InitBodies /\ [][Next]_vars

NextDates ==
    \/ CallCheckAbove12
    \/ CallCheckDecreasing
    \/ CallChangeFrequencyAnalysis
    \/ CallDaysBeforeMonths

SpecDates == InitDates /\ [][NextDates]_vars

NextYears == CallCheckDecreasing

CallOrderDateComponents ==
    /\ call = "none"
    /\ pc = "idle"
    /\ arg # None
    /\ arg[1][1] = "date"
    /\ call' = "order_date_components"
    /\ ret' = order_date_components(arg[1][2])
    /\ UNCHANGED <<text, options, pc, segmenter, parser, result, arg>>

\* ret is None when the call panics.
CallConvertTime12To24 ==
    /\ call = "none"
    /\ pc = "idle"
    /\ arg # None
    /\ arg[1][1] = "time12"
    /\ call' = "convert_time_12_to_24"
    /\ ret' = convert_time_12_to_24(arg[1][2], arg[1][3])
    /\ UNCHANGED <<text, options, pc, segmenter, parser, result, arg>>

CallNormalizeTime ==
    /\ call = "none"
    /\ pc = "idle"
    /\ arg # None
    /\ arg[1][1] = "time"
    /\ call' = "normalize_time"
    /\ ret' = normalize_time(arg[1][2])
    /\ UNCHANGED <<text, options, pc, segmenter, parser, result, arg>>

CallNormalizeDate ==
    /\ call = "none"
    /\ pc = "idle"
    /\ arg # None
    /\ arg[1][1] = "ymd"
    /\ call' = "normalize_date"
    /\ ret' = normalize_date(arg[1][2], arg[1][3], arg[1][4])
    /\ UNCHANGED <<text, options, pc, segmenter, parser, result, arg>>

\* The closure that builds one triple of numeric_dates: None when a
\* parse().unwrap() panics.
CallNumericDate ==
    /\ call = "none"
    /\ pc = "idle"
    /\ arg # None
    /\ arg[1][1] = "date"
    /\ call' = "numeric_date"
    /\ ret' = numeric_date(arg[1][2])
    /\ UNCHANGED <<text, options, pc, segmenter, parser, result, arg>>

NextTokens ==
    \/ CallOrderDateComponents
    \/ CallNumericDate
    \/ CallConvertTime12To24
    \/ CallNormalizeTime
    \/ CallNormalizeDate

SpecTokens == InitTokens /\ [][NextTokens]_vars

SpecYears == InitYears /\ [][NextYears]_vars

\* ------------------------------------------------------------------------
\* Properties.
\* ------------------------------------------------------------------------
IsStartLine(line) == IsUserLine(line) \/ IsSystemLine(line)

StartLines == {k \in 1..Len(lines) : IsStartLine(lines[k])}

Segmenting == pc = "segment" /\ line_idx <= Len(lines)

Segmented == pc \notin {"parse_string", "segment", "idle"}

\* make_array_of_messages_with_debug has just returned.
SegmenterReturned == pc = "extract" /\ Pending(parsed) = 1..Len(acc)

Last(s) == s[Len(s)]

U1 == LinePool[1]

U2 == LinePool[2]

U3 == LinePool[3]

S1 == LinePool[4]

K1 == LinePool[5]

K2 == LinePool[6]

NoExtractionFailure == \A k \in 1..Len(acc) : extract_fields(acc[k]) # None

OneMessagePerRawMessage ==
    /\ result # None
    /\ Len(result[1]) = Cardinality(StartLines)
    /\ Len(result[1]) = Len(acc)
    /\ \A k \in 1..Len(acc) :
          result[1][k] = final_object(extract_fields(acc[k])[1], days_first, parse_attachments)[1]

\* C1: on every input on which no extraction fails, parse_string returns
\* exactly one Message per RawMessage (as many as there are message-start
\* lines), the k-th Message derived from the k-th RawMessage.
C1_OneMessagePerRawMessage ==
    (pc \in {"done", "panic"} /\ NoExtractionFailure) => OneMessagePerRawMessage

\* What does hold of C1: every parse that returns gives one Message per
\* RawMessage, in order.
C1_AlignedOnReturn == pc = "done" => OneMessagePerRawMessage

\* C2: a line that matches neither pattern, seen after a message has been
\* started, creates no message: it is appended to the last message as a
\* newline followed by the line, and the system flag of that message and all
\* earlier messages stay as they are.
C2_ContinuationAppends ==
    [][(Segmenting /\ ~IsStartLine(lines[line_idx]) /\ acc # << >>)
         => /\ Len(acc') = Len(acc)
            /\ Last(acc').msg = Last(acc).msg \o <<LF>> \o lines[line_idx]
            /\ Last(acc').system = Last(acc).system
            /\ \A j \in 1..(Len(acc) - 1) : acc'[j] = acc[j]]_vars

\* [S, "two", ""] has become one message with the text S + "\ntwo\n".
C2_Witness ==
    /\ Segmented
    /\ lines = <<U1, K1, K2>>
    /\ acc = <<[system |-> FALSE, msg |-> U1 \o <<LF>> \o K1 \o <<LF>> \o K2]>>

\* C3: the user pattern is tested first: a line that satisfies both patterns
\* starts a non-system message, a line that satisfies only the system pattern
\* starts a system message; the message that was current receives no further
\* line.
C3_UserBeforeSystem ==
    [][Segmenting
         => /\ (IsUserLine(lines[line_idx]) /\ IsSystemLine(lines[line_idx]))
                 => acc' = Append(acc, [system |-> FALSE, msg |-> lines[line_idx]])
            /\ (~IsUserLine(lines[line_idx]) /\ IsSystemLine(lines[line_idx]))
                 => acc' = Append(acc, [system |-> TRUE, msg |-> lines[line_idx]])
            /\ (Len(acc') > Len(acc) /\ Last(acc').system)
                 => (~IsUserLine(lines[line_idx]) /\ IsSystemLine(lines[line_idx]))
            /\ \A j \in 1..(Len(acc) - 1) : acc'[j] = acc[j]]_vars

\* A system message, closed by a line that satisfies both patterns, and a
\* continuation line that went to the new message only.
C3_Witness ==
    /\ Segmented
    /\ lines = <<S1, U1, K1>>
    /\ IsUserLine(U1) /\ IsSystemLine(U1)
    /\ ~IsUserLine(S1) /\ IsSystemLine(S1)
    /\ acc = <<[system |-> TRUE, msg |-> S1], [system |-> FALSE, msg |-> U1 \o <<LF>> \o K1]>>

StartFlags == [k \in 1..Len(lines) |-> IsStartLine(lines[k])] \o << >>

FirstStart(flags) == CHOOSE a \in 1..Len(flags) : flags[a] /\ \A k \in 1..(a - 1) : ~flags[k]

\* The messages are the lines from the first message-start line on.
FromFirstStart(flags) ==
    IF \A k \in 1..Len(flags) : ~flags[k]
    THEN acc = << >>
    ELSE Join([k \in 1..Len(acc) |-> acc[k].msg], LF)
           = Join(SubSeq(lines, FirstStart(flags), Len(lines)), LF)

\* C4: the lines before the first message-start line appear in no message:
\* the segmenter returns the lines from the first start line on, and nothing
\* without a start line (the empty text included); parse_messages then
\* returns the empty sequence, it does not fail.
C4_LeadingLinesDiscarded ==
    /\ SegmenterReturned => FromFirstStart(StartFlags)
    /\ (acc = << >> /\ pc \in {"done", "panic"}) => (pc = "done" /\ result = Some(<< >>))

\* Two lines without a timestamp, then a message: one Message, without them.
C4_Witness ==
    /\ pc = "done"
    /\ lines = <<K1, K2, U1>>
    /\ acc = <<[system |-> FALSE, msg |-> U1]>>
    /\ Len(result[1]) = 1
    /\ result[1][1].message = <<"m">>

\* C4, the empty text: it is one empty line, and the result is empty.
C4_EmptyTextReached == text = << >> /\ lines = << << >> >> /\ pc = "done" /\ result = Some(<< >>)

FirstResolved(a, b, c) == IF a # None THEN a ELSE IF b # None THEN b ELSE c

\* C5: days_before_months returns the answer of the first resolved heuristic
\* in the order range check, monotonicity check, change frequency; a
\* resolved range check wins whatever the other two say, and the result is
\* unresolved only when all three are.
C5_FirstResolvedWins ==
    call = "days_before_months" =>
       /\ \E order \in Orders(GroupKeys(numeric_dates, 2)) :
             ret = FirstResolved(check_above_12(numeric_dates),
                                 check_decreasing(numeric_dates, order),
                                 change_frequency_analysis(numeric_dates))
       /\ check_above_12(numeric_dates) # None => ret = check_above_12(numeric_dates)
       /\ ret = None <=>
             /\ check_above_12(numeric_dates) = None
             /\ \A order \in Orders(GroupKeys(numeric_dates, 2)) :
                   check_decreasing(numeric_dates, order) = None
             /\ change_frequency_analysis(numeric_dates) = None

\* The range check says days-first, the other two say month-first.
C5_Witness ==
    /\ call = "days_before_months"
    /\ check_above_12(numeric_dates) = Some(TRUE)
    /\ \A order \in Orders(GroupKeys(numeric_dates, 2)) :
          check_decreasing(numeric_dates, order) = Some(FALSE)
    /\ change_frequency_analysis(numeric_dates) = Some(FALSE)
    /\ ret = Some(TRUE)

\* C6: check_above_12 is days-first if any triple has a > 12, wherever it is
\* and whatever the b's are; else month-first if any triple has b > 12; else
\* unresolved (so unresolved on the empty sequence).
C6_RangeCheck ==
    call = "check_above_12" =>
       ret = IF \E k \in 1..Len(numeric_dates) : numeric_dates[k][1] > 12 THEN Some(TRUE)
             ELSE IF \E k \in 1..Len(numeric_dates) : numeric_dates[k][2] > 12 THEN Some(FALSE)
             ELSE None

\* A triple with b > 12 comes first, a triple with a > 12 last: days-first.
C6_Witness ==
    /\ call = "check_above_12"
    /\ Len(numeric_dates) = 3
    /\ numeric_dates[1][1] <= 12 /\ numeric_dates[1][2] > 12
    /\ numeric_dates[2][1] <= 12
    /\ numeric_dates[3][1] > 12
    /\ ret = Some(TRUE)

\* C6, the empty sequence.
C6_EmptyReached == call = "check_above_12" /\ numeric_dates = << >> /\ ret = None

\* i and j are consecutive members of one year group.
ConsecutiveInYear(i, j) ==
    /\ i < j
    /\ numeric_dates[i][3] = numeric_dates[j][3]
    /\ \A k \in (i + 1)..(j - 1) : numeric_dates[k][3] # numeric_dates[i][3]

Positions == 1..Len(numeric_dates)

Years == {numeric_dates[k][3] : k \in Positions}

DaysFirstSignal(y) ==
    \E i, j \in Positions :
       /\ numeric_dates[i][3] = y
       /\ ConsecutiveInYear(i, j)
       /\ numeric_dates[j][1] < numeric_dates[i][1]

MonthFirstSignal(y) ==
    /\ ~DaysFirstSignal(y)
    /\ \E i, j \in Positions :
          /\ numeric_dates[i][3] = y
          /\ ConsecutiveInYear(i, j)
          /\ numeric_dates[j][2] < numeric_dates[i][2]

\* C7: check_decreasing groups the triples by year; a group signals
\* days-first if a decreases between two consecutive members, else
\* month-first if b does; the result is days-first if any group signals
\* days-first, else month-first if any group signals month-first, else
\* unresolved.
C7_Monotonicity ==
    call = "check_decreasing" =>
       ret = IF \E y \in Years : DaysFirstSignal(y) THEN Some(TRUE)
             ELSE IF \E y \in Years : MonthFirstSignal(y) THEN Some(FALSE)
             ELSE None

\* The first year's group signals month-first, the second year's days-first,
\* and a third triple of the first year stands between them: days-first.
C7_Witness ==
    /\ call = "check_decreasing"
    /\ Len(numeric_dates) = 4
    /\ \E y1, y2 \in Years :
          /\ y1 # y2
          /\ numeric_dates[1][3] = y1
          /\ MonthFirstSignal(y1)
          /\ DaysFirstSignal(y2)
    /\ ret = Some(TRUE)

RECURSIVE SumOfDeltas(_, _)
\* The sum over the consecutive pairs up to position n of |x_k - x_(k-1)| for
\* component j.
SumOfDeltas(j, n) ==
    IF n < 2 THEN 0
    ELSE SumOfDeltas(j, n - 1)
         + (IF numeric_dates[n][j] >= numeric_dates[n - 1][j]
            THEN numeric_dates[n][j] - numeric_dates[n - 1][j]
            ELSE numeric_dates[n - 1][j] - numeric_dates[n][j])

\* C8: change_frequency_analysis compares the summed absolute a-deltas with
\* the summed absolute b-deltas over all consecutive pairs of the whole
\* sequence: days-first if the a-sum is greater, month-first if smaller,
\* unresolved on a tie (so on fewer than two triples).
C8_ChangeFrequency ==
    call = "change_frequency_analysis" =>
       /\ ret = IF SumOfDeltas(1, Len(numeric_dates)) > SumOfDeltas(2, Len(numeric_dates))
                THEN Some(TRUE)
                ELSE IF SumOfDeltas(1, Len(numeric_dates)) < SumOfDeltas(2, Len(numeric_dates))
                THEN Some(FALSE)
                ELSE None
       /\ Len(numeric_dates) < 2 => ret = None

\* The a's go up and down again across a year change (signed deltas cancel,
\* and no two triples of one year are neighbours): days-first.
C8_Witness ==
    /\ call = "change_frequency_analysis"
    /\ numeric_dates = <<<<1, 1, 17>>, <<13, 2, 18>>, <<1, 1, 17>>>>
    /\ ret = Some(TRUE)

\* The (first, second, year) components of every message of the batch.
Components == [k \in 1..Len(parsed) |-> order_date_components(parsed[k][1].date)] \o << >>

TriplesOf(os) == [k \in 1..Len(os) |-> parse_triple(os[k])[1]] \o << >>

\* The triples of the whole batch, as parse_messages builds them.
BatchTriples == TriplesOf(Components)

\* parse_messages has returned, or has panicked in the normalization stage:
\* the order was decided and applied to every message that was normalized.
OrderApplied ==
    \/ pc = "done"
    \/ pc = "panic" /\ Pending(parsed) = {} /\ \E k \in 1..Len(dmy) : dmy[k] # None

\* The order in use: the option, else the verdict, else days-first.
OrderInUse(verdict) ==
    IF opt_days_first # None THEN opt_days_first[1]
    ELSE IF verdict # None THEN verdict[1]
    ELSE TRUE

\* Message k was read days-first (days) or month-first (~days).
InOrder(os, k, days) ==
    dmy[k] = Some(IF days THEN <<os[k][1], os[k][2], os[k][3]>>
                  ELSE <<os[k][2], os[k][1], os[k][3]>>)

VerdictUsed(os, verdict) ==
    /\ opt_days_first # None => days_first = opt_days_first
    /\ opt_days_first = None => days_first = verdict
    /\ \A k \in 1..Len(dmy) : dmy[k] # None => InOrder(os, k, OrderInUse(verdict))

BatchVerdictUsed(os, triples) ==
    \E order \in Orders(GroupKeys(triples, 2)) :
       VerdictUsed(os, days_before_months(triples, order))

DateOrderUsed(os) == BatchVerdictUsed(os, TriplesOf(os))

\* C9: the date order parse_messages uses is the days_first option when it is
\* supplied, whatever the disambiguator would say; else the verdict of
\* days_before_months on the triples of the whole batch; else days-first.
C9_DateOrderUsed == OrderApplied => DateOrderUsed(Components)

\* No option, one message with an ambiguous date: the verdict is unresolved
\* and the message is read days-first.
C9_Witness ==
    /\ pc = "done"
    /\ opt_days_first = None
    /\ lines = <<U1>>
    /\ days_first = None
    /\ dmy = <<Some(<< <<"3">>, <<"6">>, <<"1", "8">> >>)>>
    /\ result[1][1].date = <<2018, 6, 3, 1, 5, 0>>

\* C9, the option against the verdict: month-first is supplied for a batch
\* the disambiguator would call days-first.
C9_OptionOverridesReached ==
    /\ opt_days_first = Some(FALSE)
    /\ lines = <<U1, S1>>
    /\ pc = "done"
    /\ \A order \in Orders(GroupKeys(BatchTriples, 2)) : days_before_months(BatchTriples, order) = Some(TRUE)
    /\ result[1][1].date = <<2018, 3, 6, 1, 5, 0>>

SameOrderForAll(os) ==
    \E days \in BOOLEAN : \A k \in 1..Len(dmy) : dmy[k] # None => InOrder(os, k, days)

SomeFirstTokenAbove12(triples) == \E k \in 1..Len(triples) : triples[k][1] > 12

AllDaysFirst(os) == \A k \in 1..Len(dmy) : dmy[k] # None => InOrder(os, k, TRUE)

OneOrderAndAbove12DaysFirst(os) ==
    /\ SameOrderForAll(os)
    /\ SomeFirstTokenAbove12(TriplesOf(os)) => AllDaysFirst(os)

OneOrderAndAbove12DaysFirstUnlessFalse(os) ==
    /\ SameOrderForAll(os)
    /\ (SomeFirstTokenAbove12(TriplesOf(os)) /\ opt_days_first # Some(FALSE)) => AllDaysFirst(os)

\* C10, as claimed: every message of a batch is read with the same order, and
\* one message whose first token exceeds 12 makes all of them days-first.
C10_Original == OrderApplied => OneOrderAndAbove12DaysFirst(Components)

\* C10, amended: every message of a batch is read with the same order, and
\* one message whose first token exceeds 12 makes all of them days-first
\* unless days_first = false was supplied.
C10_SameOrderForAll == OrderApplied => OneOrderAndAbove12DaysFirstUnlessFalse(Components)

\* No option; 3/6/18 then 13/1/21: both are read days-first, across the
\* year change.
C10_Witness ==
    /\ pc = "done"
    /\ opt_days_first = None
    /\ lines = <<U1, U2>>
    /\ result[1][1].date = <<2018, 6, 3, 1, 5, 0>>
    /\ result[1][2].date = <<2021, 1, 13, 1, 5, 0>>

\* The longest of the three parts, counted in characters, goes last.
LongestLast(a, b, c) ==
    IF Len(c) >= Len(a) /\ Len(c) >= Len(b) THEN <<a, b, c>>
    ELSE IF Len(b) >= Len(a) THEN <<a, c, b>>
    ELSE <<b, c, a>>

IsAscii(s) == \A k \in 1..Len(s) : s[k] \in AsciiDigits

\* The call was made on the date a s1 b s2 c and returned as C11 says.
OrderedAsClaimed(a, b, c) ==
    /\ call = "order_date_components" => ret = LongestLast(a, b, c)
    /\ (call = "numeric_date" /\ ret # None) =>
          ret = Some([k \in 1..3 |-> DecimalValue(LongestLast(a, b, c)[k])])

DateCall == call \in {"order_date_components", "numeric_date"}

\* C11: order_date_components splits the date on '-', '/' or '.' into three
\* trimmed parts and returns them with the longest part last, (a, b, c) if c
\* is longest or tied, else (a, c, b) if b is longest, else (b, c, a); the
\* triple given to the disambiguator is built with the same rule.
C11_LongestPartLast ==
    DateCall =>
       \E a, b, c \in NumberTokens : \E s1, s2 \in DateSeparators :
          /\ arg[1][2] = a \o s1 \o b \o s2 \o c
          /\ OrderedAsClaimed(a, b, c)

\* What does hold of C11: the same on the dates written in ASCII digits.
C11_LongestPartLastAscii ==
    DateCall =>
       \E a, b, c \in NumberTokens : \E s1, s2 \in DateSeparators :
          /\ arg[1][2] = a \o s1 \o b \o s2 \o c
          /\ (IsAscii(a) /\ IsAscii(b) /\ IsAscii(c)) => OrderedAsClaimed(a, b, c)

\* C12: timestamp assembly never crashes the parse: when every RawMessage
\* matches its pattern, parse_messages does not panic, whatever the numeric
\* fields of the messages are.
C12_AssemblyNeverCrashes == pc = "panic" => ~NoExtractionFailure

\* The hour of the 24-hour clock for hour h (1..12) of the 12-hour clock.
Hour24(h, marker) ==
    IF marker = <<"A", "M">> THEN (IF h = 12 THEN 0 ELSE h)
    ELSE (IF h = 12 THEN 12 ELSE h + 12)

TwoDigits(n) == <<DigitChars[(n \div 10) + 1], DigitChars[(n % 10) + 1]>>

\* The call on hour token h, minute token m and the seconds (with their
\* colon, or nothing) returned as C13 says.
ConvertedAsClaimed(h, m, seconds) ==
    (IsAscii(h) /\ DecimalValue(h) \in 1..12) =>
       /\ ret = Some(TwoDigits(Hour24(DecimalValue(h), arg[1][3])) \o <<":">> \o m \o seconds)
       /\ Hour24(DecimalValue(h), arg[1][3]) \in 0..23

\* C13: convert_time_12_to_24 gives hour 00 for 12 AM, 12 for 12 PM, h + 12
\* for h PM and h for h AM (h in 1..11), written with two digits and followed
\* by the minutes and the seconds, if any, as they were; for every hour in
\* 1..12 the resulting hour is in 0..23.
C13_TwelveToTwentyFour ==
    call = "convert_time_12_to_24" =>
       \E h \in HourTokens, m \in MinuteTokens, s1 \in TimeSeparators :
          \/ arg[1][2] = h \o s1 \o m /\ ConvertedAsClaimed(h, m, << >>)
          \/ \E s \in SecondTokens, s2 \in TimeSeparators :
                /\ arg[1][2] = h \o s1 \o m \o s2 \o s
                /\ ConvertedAsClaimed(h, m, <<":">> \o s)

\* 12.5.07 AM is 00:5:07.
C13_Witness ==
    /\ call = "convert_time_12_to_24"
    /\ arg = Some(<<"time12", <<"1", "2", ".", "5", ".", "0", "7">>, <<"A", "M">>>>)
    /\ ret = Some(<<"0", "0", ":", "5", ":", "0", "7">>)

\* s padded with zeros on the left to at least w characters.
ZeroPadded(s, w) ==
    IF Len(s) >= w THEN s ELSE [k \in 1..(w - Len(s)) |-> "0"] \o s

\* normalize_date(year, month, day) returned as C14 says.
PaddedAsClaimed(year, month, day) ==
    /\ Len(ret[1]) = 4
    /\ Len(year) <= 2 => ret[1] = <<"2", "0">> \o ZeroPadded(year, 2)
    /\ Len(year) = 4 => ret[1] = year
    /\ ret[2] = ZeroPadded(month, 2) /\ Len(ret[2]) >= 2
    /\ ret[3] = ZeroPadded(day, 2) /\ Len(ret[3]) >= 2

\* C14: normalize_date returns a year of exactly 4 digits, a year token of
\* at most 2 digits taken as 20xx, and the month and the day padded with
\* zeros on the left to at least 2 digits, for all tokens of 1 to 4 digits.
C14_DatePadded ==
    call = "normalize_date" => PaddedAsClaimed(arg[1][2], arg[1][3], arg[1][4])

\* What does hold of C14: the same for a year token of 1, 2 or 4 ASCII digits.
C14_DatePaddedUnlessThreeDigits ==
    (call = "normalize_date" /\ IsAscii(arg[1][2]) /\ Len(arg[1][2]) # 3)
       => PaddedAsClaimed(arg[1][2], arg[1][3], arg[1][4])

\* normalize_time returned hh:mm:ss for the hour, minute and second tokens.
FormattedAsClaimed(h, m, s) ==
    /\ ret = ZeroPadded(h, 2) \o <<":">> \o ZeroPadded(m, 2) \o <<":">> \o ZeroPadded(s, 2)
    /\ Len(ret) = 8

\* normalize_time returned the hour padded and the rest as it was.
FormattedHourOnly(h, m, s) == ret = ZeroPadded(h, 2) \o <<":">> \o m \o <<":">> \o s

\* C15: normalize_time returns hh:mm:ss for every time token: two-digit
\* hours, minutes and seconds joined by ':', the seconds 00 when the token
\* has none.
C15_TimeFormatted ==
    call = "normalize_time" =>
       \E h \in HourTokens, m \in MinuteTokens, s1 \in TimeSeparators :
          \/ arg[1][2] = h \o s1 \o m /\ FormattedAsClaimed(h, m, <<"0", "0">>)
          \/ \E s \in SecondTokens, s2 \in TimeSeparators :
                arg[1][2] = h \o s1 \o m \o s2 \o s /\ FormattedAsClaimed(h, m, s)

\* What does hold of C15: the hour is padded to two digits, the seconds
\* default to 00, and minutes and seconds are copied as they are.
C15_HourPaddedOnly ==
    call = "normalize_time" =>
       \E h \in HourTokens, m \in MinuteTokens, s1 \in TimeSeparators :
          \/ arg[1][2] = h \o s1 \o m /\ FormattedHourOnly(h, m, <<"0", "0">>)
          \/ \E s \in SecondTokens, s2 \in TimeSeparators :
                arg[1][2] = h \o s1 \o m \o s2 \o s /\ FormattedHourOnly(h, m, s)

\* C16: normalize_date applied to its own result returns that result, and
\* so does normalize_time, for every input made of admitted tokens.
C16_NormalizationIdempotent ==
    /\ call = "normalize_date" => normalize_date(ret[1], ret[2], ret[3]) = ret
    /\ call = "normalize_time" => normalize_time(ret) = ret

\* normalize_date changed all three tokens, and changes nothing the second
\* time.
C16_Witness ==
    /\ call = "normalize_date"
    /\ arg = Some(<<"ymd", <<"1">>, <<"1">>, <<"1">>>>)
    /\ ret = <<<<"2", "0", "0", "1">>, <<"0", "1">>, <<"0", "1">>>>
    /\ normalize_date(ret[1], ret[2], ret[3]) = ret

\* C16, for the time: 1.5 becomes 01:5:00, which stays.
C16_TimeReached ==
    /\ call = "normalize_time"
    /\ arg = Some(<<"time", <<"1", ".", "5">>>>)
    /\ ret = <<"0", "1", ":", "5", ":", "0", "0">>
    /\ normalize_time(ret) = ret

\* The parallel closures, applied to one RawMessage, give message m.
ParallelGives(obj, m) ==
    \E t \in {extract_fields(obj)} :
       /\ t # None
       /\ final_object(t[1], days_first, parse_attachments) = Some(m)

\* One of the unwraps of the parallel path fails on a RawMessage.
ParallelFails(obj) ==
    \E t \in {extract_fields(obj)} :
       \/ t = None
       \/ opt_days_first = None /\ numeric_date(t[1].date) = None
       \/ final_object(t[1], days_first, parse_attachments) = None

C17_DebugFailureReached ==
    /\ debug
    /\ pc = "panic"
    /\ Len(final_messages) >= 2
    /\ final_messages[1] # None

\* The two alternatives of the attachment pattern, each on its own.
AngleAttachment ==
    Cat(<<Bol, DirMarks, Lit("<"), Rep(Cls("dot"), 1, Inf, TRUE), Lit(":"),
          Grp(1, Rep(Cls("dot"), 1, Inf, TRUE)), Lit(">")>>)

NamedAttachment ==
    Cat(<<Bol, DirMarks,
          Grp(1, Cat(<<Rep(Alt(<<Cls("w"), Lit("-")>>), 1, Inf, TRUE), Lit("."),
                       Rep(Cls("w"), 1, Inf, TRUE)>>)),
          Cls("s"), OneOf({"(", "<"}), Rep(Cls("dot"), 1, Inf, TRUE), OneOf({")", ">"})>>)

FileNameOf(found, body) == [file_name |-> Trim(GroupOrEmpty(found[1], 1, body))]

\* The attachment of a cleaned body: the trimmed file name of the first
\* alternative that matches, none when neither does.
ExpectedAttachment(body) ==
    IF IsMatch(AngleAttachment, 1, body)
    THEN Some(FileNameOf(Captures(AngleAttachment, 1, body), body))
    ELSE IF IsMatch(NamedAttachment, 1, body)
         THEN Some(FileNameOf(Captures(NamedAttachment, 1, body), body))
         ELSE None

\* Message m has the timestamp, author and body that the RawMessage gets
\* with parse_attachments = false, and the attachment the option asks for.
OnlyAttachmentDiffers(obj, m) ==
    \E off \in {final_object(extract_fields(obj)[1], days_first, FALSE)} :
       /\ off # None
       /\ off[1].attachment = None
       /\ m.date = off[1].date
       /\ m.author = off[1].author
       /\ m.message = off[1].message
       /\ m.attachment = IF parse_attachments THEN ExpectedAttachment(m.message) ELSE None

\* C18: parse_attachments affects only the attachment field: without it no
\* Message has an attachment; with it a Message has one exactly when its
\* cleaned body matches an alternative of the attachment pattern, the file
\* name being the trimmed capture of the first alternative that matches;
\* timestamp, author and body are those of the parse without the option.
C18_OnlyAttachmentDiffers ==
    pc = "done" =>
       /\ Len(result[1]) = Len(acc)
       /\ \A k \in 1..Len(acc) : OnlyAttachmentDiffers(acc[k], result[1][k])

\* With the option set, "<a: f.j >" gave the attachment f.j and "hi" none.
C18_Witness ==
    /\ pc = "done"
    /\ parse_attachments
    /\ text = Join(<<BodyLinePool[1], BodyLinePool[4]>>, LF)
    /\ Len(result[1]) = 2
    /\ result[1][1].message = <<"<", "a", ":", " ", "f", ".", "j", " ", ">">>
    /\ result[1][1].attachment = Some([file_name |-> <<"f", ".", "j">>])
    /\ result[1][2].message = <<"h", "i">>
    /\ result[1][2].attachment = None

\* C18, the option not set: the same text gives no attachment.
C18_OptionOffReached ==
    /\ pc = "done"
    /\ ~parse_attachments
    /\ text = Join(<<BodyLinePool[1], BodyLinePool[4]>>, LF)
    /\ result[1][1].message = <<"<", "a", ":", " ", "f", ".", "j", " ", ">">>
    /\ result[1][1].attachment = None

\* C19: a Message has no author exactly when its RawMessage is a system
\* message, whatever the continuation lines merged into it look like.
C19_AuthorAbsentIffSystem ==
    pc = "done" =>
       /\ Len(result[1]) = Len(acc)
       /\ \A k \in 1..Len(acc) : (result[1][k].author = None) <=> acc[k].system

\* A system notice with the continuation "b: c" merged into it came out
\* without an author.
C19_Witness ==
    /\ pc = "done"
    /\ text = Join(<<BodyLinePool[3], BodyLinePool[5]>>, LF)
    /\ Len(acc) = 1
    /\ acc[1].system
    /\ acc[1].msg = BodyLinePool[3] \o <<LF>> \o BodyLinePool[5]
    /\ result[1][1].author = None

\* C19, a user message: the author is present.
C19_UserReached ==
    /\ pc = "done"
    /\ text = Join(<<BodyLinePool[4], BodyLinePool[5]>>, LF)
    /\ ~acc[1].system
    /\ result[1][1].author = Some(<<"a">>)

\* The text of a RawMessage after the timestamp block, and after the
\* author and its colon for a user message.
AfterHeader(obj) ==
    SubSeq(obj.msg, Len(IF obj.system THEN SystemHeader ELSE UserHeader) + 1, Len(obj.msg))

WithoutMarks(s) == SelectSeq(s, LAMBDA c : c \notin {LRM, RLM})

NoMarks(s) == \A k \in 1..Len(s) : s[k] \notin {LRM, RLM}

NoSurroundingSpace(s) == s = << >> \/ (~IsSpace(s[1]) /\ ~IsSpace(s[Len(s)]))

\* body is w without the whitespace at its two ends.
TrimmedFrom(w, body) ==
    \E a \in 1..(Len(w) + 1) :
       \E b \in 0..Len(w) :
          /\ body = SubSeq(w, a, b)
          /\ \A k \in 1..Len(w) : (k < a \/ k > b) => IsSpace(w[k])

CleanBody(obj, body) ==
    /\ NoMarks(body)
    /\ NoSurroundingSpace(body)
    /\ TrimmedFrom(WithoutMarks(AfterHeader(obj)), body)

\* C20: the body of every Message has no directional mark and no
\* whitespace at its ends, and is otherwise the text after the timestamp
\* block (and the author), the newlines of continuation lines included.
C20_BodyCleaned ==
    pc = "done" =>
       /\ Len(result[1]) = Len(acc)
       /\ \A k \in 1..Len(acc) : CleanBody(acc[k], result[1][k].message)

\* A body between marks and spaces, with a continuation line: the marks and
\* the outer spaces are gone, the inner space and the newline are kept.
C20_Witness ==
    /\ pc = "done"
    /\ text = Join(<<BodyLinePool[2], BodyLinePool[6]>>, LF)
    /\ Len(acc) = 1
    /\ result[1][1].message =
          <<"f", ".", "j", " ", "(", "x", ")", NNBSP, LF, "(", "x", ")">>

\* A step puts a tuple only at the index of the RawMessage it was extracted
\* from, and a tuple once collected stays.
TuplesAligned ==
    \A k \in 1..Len(parsed) :
       IF parsed[k] = None
       THEN parsed'[k] # None => parsed'[k] = extract_fields(acc[k])
       ELSE parsed'[k] = parsed[k]

\* Every Message built so far is the one of the tuple at its index.
MessagesAligned ==
    /\ Len(final_messages) = Len(acc)
    /\ \A k \in 1..Len(acc) :
          final_messages[k] # None =>
             /\ parsed[k] # None
             /\ final_messages[k] = final_object(parsed[k][1], days_first, parse_attachments)

\* The disambiguator got the triples in message order, and its verdict is
\* the same for every enumeration order of the year groups.
TriplesInMessageOrder ==
    /\ Len(numeric_dates) = Len(acc)
    /\ \A k \in 1..Len(acc) : numeric_date(parsed[k][1].date) = Some(numeric_dates[k])
    /\ \A order \in Orders(GroupKeys(numeric_dates, 2)) :
          days_first = days_before_months(numeric_dates, order)

\* What parse_messages returns is fixed by the RawMessages and the options.
SameForEverySchedule ==
    /\ pc = "done" =>
          /\ result = Some([k \in 1..Len(acc) |-> final_messages[k][1]])
          /\ \A k \in 1..Len(acc) : ~ParallelFails(acc[k])
    /\ pc = "panic" => \E k \in 1..Len(acc) : ParallelFails(acc[k])

\* C21: on the parallel path, whatever the order in which the workers
\* finish, the tuples and the Messages sit at the index of their RawMessage,
\* the disambiguator gets the triples in message order, and the outcome of
\* parse_messages does not depend on the schedule.
C21_IndexAligned ==
    /\ []((~debug /\ Segmented) =>
            /\ Len(parsed) = Len(acc)
            /\ MessagesAligned
            /\ (opt_days_first = None /\ pc \in {"normalize", "done"}) => TriplesInMessageOrder
            /\ SameForEverySchedule)
    /\ [][(~debug /\ Segmented) => TuplesAligned]_vars

\* The worker of the second of two different RawMessages finished first:
\* its tuple is at index 2 while index 1 is still empty.
C21_Witness ==
    /\ ~debug
    /\ pc = "extract"
    /\ Len(acc) >= 2
    /\ acc[1].msg # acc[2].msg
    /\ parsed[1] = None
    /\ parsed[2] # None
    /\ parsed[2] = extract_fields(acc[2])

\* C21, the normalization stage: the third Message was built before the
\* first, after a detection on three triples.
C21_NormalizedOutOfOrderReached ==
    /\ ~debug
    /\ pc = "normalize"
    /\ opt_days_first = None
    /\ Len(numeric_dates) = 3
    /\ final_messages[1] = None
    /\ final_messages[3] # None

PositionsOf(y) == {k \in Positions : numeric_dates[k][3] = y}

\* The position of the j-th triple of year y in the input.
NthOf(y, j) ==
    CHOOSE p \in PositionsOf(y) : Cardinality({q \in PositionsOf(y) : q <= p}) = j

\* A group holds exactly the triples of its year, in input order.
KeepsInputOrder(group, y) ==
    /\ Len(group) = Cardinality(PositionsOf(y))
    /\ \A j \in 1..Len(group) : group[j] = numeric_dates[NthOf(y, j)]

GroupsKeepInputOrder(groups, order) ==
    /\ Len(groups) = Len(order)
    /\ \A g \in 1..Len(order) : KeepsInputOrder(groups[g], order[g])

\* C22: the result of check_decreasing is the same for every enumeration
\* order of the year groups; every group holds the triples of its year in
\* input order; and a triple is compared only with the previous triple of
\* its own year: the result is unresolved exactly when neither number
\* decreases between two consecutive triples of one year.
C22_GroupingDeterministic ==
    call = "check_decreasing" =>
       /\ \A order \in Orders(Years) :
             /\ check_decreasing(numeric_dates, order) = ret
             /\ GroupsKeepInputOrder(group_array_by_value_at_index(numeric_dates, 2, order),
                                     order)
       /\ ret = None <=>
             \A i, j \in Positions :
                ConsecutiveInYear(i, j) =>
                   /\ numeric_dates[j][1] >= numeric_dates[i][1]
                   /\ numeric_dates[j][2] >= numeric_dates[i][2]

\* Two years alternate in a batch of four; both numbers decrease from the
\* first triple to the second, which is of the other year, and nothing
\* decreases within a year: unresolved.
C22_Witness ==
    /\ call = "check_decreasing"
    /\ Len(numeric_dates) = 4
    /\ numeric_dates[1][3] = numeric_dates[3][3]
    /\ numeric_dates[2][3] = numeric_dates[4][3]
    /\ numeric_dates[1][3] # numeric_dates[2][3]
    /\ numeric_dates[2][1] < numeric_dates[1][1]
    /\ numeric_dates[2][2] < numeric_dates[1][2]
    /\ ret = None

\* C22: the first number decreases from the second triple to the third,
\* which are of different years; within the year of the first and the third
\* only the second number decreases: month-first.
C22_InterleavedSignalReached ==
    /\ call = "check_decreasing"
    /\ Len(numeric_dates) = 3
    /\ numeric_dates[1][3] = numeric_dates[3][3]
    /\ numeric_dates[1][3] # numeric_dates[2][3]
    /\ numeric_dates[3][1] < numeric_dates[2][1]
    /\ numeric_dates[3][1] >= numeric_dates[1][1]
    /\ numeric_dates[3][2] < numeric_dates[1][2]
    /\ ret = Some(FALSE)
====
